---------------------------- MODULE Spec2Model ----------------------------
(***************************************************************************)
(* Model of packages/vm/src/evm/opcodes/util.ts: the gas-metering helpers  *)
(* of the EVM interpreter (subMemUsage, updateSstoreGas, maxCallGas) and   *)
(* the arithmetic and buffer primitives they rest on (divCeil, mod,        *)
(* fromTwos, toTwos, getDataSlice).                                        *)
(*                                                                         *)
(* BN and bigint values are modelled as unbounded integers; the only       *)
(* fixed-width operation of the file, BigInt.asUintN(256, .), keeps its    *)
(* wrap-around on a scaled-down width WordBits.                            *)
(***************************************************************************)
EXTENDS Integers, Sequences, FiniteSets

VARIABLES
    gasLeft,           \* eei gas ledger: gas remaining in the frame
    gasRefund,         \* eei gas ledger: refund counter
    memoryWordCount,   \* runState.memoryWordCount
    highestMemCost,    \* runState.highestMemCost
    call               \* the last call made: its operation, arguments,
                       \* the context it started from and its outcome

vars == <<gasLeft, gasRefund, memoryWordCount, highestMemCost, call>>

-----------------------------------------------------------------------------
(* Bounds of the model *)

MaxA == 8           \* dividends of divCeil and mod range over -MaxA..MaxA
MaxB == 4           \* divisors range over 1..MaxB (divCeil), -MaxB..MaxB \ {0} (mod)
WordBits == 8       \* scaled-down width of the 256-bit word
MaxByte == 1        \* bytes of a buffer range over 0..MaxByte
MaxDataLen == 3     \* buffers have at most MaxDataLen bytes
MaxSliceArg == 4    \* offset and length of getDataSlice range over 0..MaxSliceArg
MaxCallGas == 66    \* small gas amounts of maxCallGas range over 0..MaxCallGas
MaxGas == 12        \* initial gasLeft of a memory-charging frame: 0..MaxGas
MaxWords == 4       \* initial memoryWordCount: 0..MaxWords
MaxOffsetWords == 2 \* offsets of subMemUsage reach MaxOffsetWords words
MaxGasUnits == 5    \* initial gasLeft of a storage-charging frame, in resets
MaxStorageByte == 1 \* bytes of a storage value range over 0..MaxStorageByte
MaxStorageLen == 1  \* storage values have at most MaxStorageLen bytes

(* Protocol parameters read through common.param *)

MemoryFee == 3          \* gasPrices.memory
QuadCoeffDiv == 512     \* gasPrices.quadCoeffDiv
WordSize == 32          \* bytes per memory word
SstoreSet == 20000      \* gasPrices.sstoreSet
SstoreReset == 5000     \* gasPrices.sstoreReset
SstoreRefund == 15000   \* gasPrices.sstoreRefund
CallGasDivisor == 64    \* divn(64) of maxCallGas

-----------------------------------------------------------------------------
(* bigint primitives of the language *)

abs(a) == IF a > 0 THEN a ELSE a * (-1)

\* bigint a / b: division truncating toward zero
TruncDiv(a, b) ==
    LET q == abs(a) \div abs(b)
    IN  IF (a < 0) = (b < 0) THEN q ELSE -q

\* bigint a % b: remainder with the sign of the dividend
Rem(a, b) == a - b * TruncDiv(a, b)

\* bigint ~a
BitNot(a) == -a - 1

RECURSIVE Pow2(_)
Pow2(n) == IF n = 0 THEN 1 ELSE 2 * Pow2(n - 1)

\* BigInt.asUintN(WordBits, v): v modulo 2^WordBits, in 0 .. 2^WordBits - 1
asUintN(v) == v % Pow2(WordBits)

-----------------------------------------------------------------------------
(* ArithmeticUtils *)

\* mod without the correction of a negative remainder
modNoFix(a, b) == Rem(a, b)

mod(a, b) ==
    LET r == Rem(a, b)
    IN  IF r < 0 THEN b + r ELSE r

\* divCeil rounding by the sign of the dividend instead of the quotient
divCeilBySignOfA(a, b) ==
    LET div == TruncDiv(a, b)
        modulus == mod(a, b)
    IN  IF modulus = 0 THEN div
        ELSE IF a < 0 THEN div - 1 ELSE div + 1

divCeil(a, b) ==
    LET div == TruncDiv(a, b)
        modulus == mod(a, b)
    IN  IF modulus = 0 THEN div
        ELSE IF div < 0 THEN div - 1 ELSE div + 1

fromTwos(a) == asUintN(BitNot(a - 1))

toTwos(a) == asUintN(BitNot(a)) + 1

-----------------------------------------------------------------------------
(* SafeBuffer *)

Bytes == 0..MaxByte

Buffers == UNION {[1..n -> Bytes] : n \in 0..MaxDataLen}

Zeros(n) == [i \in 1..n |-> 0]

\* Buffer.prototype.slice(start, end), 0 <= start, 0 <= end
BufferSlice(buf, start, end) == SubSeq(buf, start + 1, end)

\* ethereumjs-util setLengthRight: right-pads with zeros, or truncates, to length
setLengthRight(msg, length) ==
    IF Len(msg) < length
    THEN msg \o Zeros(length - Len(msg))
    ELSE SubSeq(msg, 1, length)

\* getDataSlice taking the slice end as length instead of offset + length
getDataSliceEndIsLength(data, offset, length) ==
    LET len == Len(data)
        off == IF offset > len THEN len ELSE offset
        end == IF length > len THEN len ELSE length
    IN  setLengthRight(BufferSlice(data, off, end), length)

getDataSlice(data, offset, length) ==
    LET len == Len(data)
        off == IF offset > len THEN len ELSE offset
        sum == off + length
        end == IF sum > len THEN len ELSE sum
    IN  setLengthRight(BufferSlice(data, off, end), length)

-----------------------------------------------------------------------------
(* GasAccountant: call gas forwarding *)

\* maxCallGas applying the cap whatever the hardfork
maxCallGasAlwaysCapped(gasLimit, gasAvail, isTangerineWhistleOrLater) ==
    LET gasAllowed == gasAvail - (gasAvail \div CallGasDivisor)
    IN  IF gasLimit > gasAllowed THEN gasAllowed ELSE gasLimit

\* gasAvail is the parameter gasLeft of the source; isTangerineWhistleOrLater
\* is common.gteHardfork('tangerineWhistle')
maxCallGas(gasLimit, gasAvail, isTangerineWhistleOrLater) ==
    IF isTangerineWhistleOrLater
    THEN LET gasAllowed == gasAvail - (gasAvail \div CallGasDivisor)
         IN  IF gasLimit > gasAllowed THEN gasAllowed ELSE gasLimit
    ELSE gasLimit

-----------------------------------------------------------------------------
(* Gas ledger of the execution environment (runState.eei) *)

\* eei.useGas: fails with OutOfGas when amount exceeds the gas left, and then
\* leaves the ledger as it was; otherwise deducts amount
useGas(gas, amount) ==
    IF amount > gas
    THEN [gasLeft |-> gas, err |-> "OutOfGas"]
    ELSE [gasLeft |-> gas - amount, err |-> "none"]

\* eei.refundGas: adds amount to the refund counter
refundGas(refund, amount) == refund + amount

\* adjustSstoreGasEIP2929 with EIP-2929 inactive: the default cost
adjustSstoreGasEIP2929(defaultCost, costName) == defaultCost

-----------------------------------------------------------------------------
(* GasAccountant: memory expansion *)

\* words * 3 + words ^ 2 / 512
MemCost(words) == words * MemoryFee + ((words * words) \div QuadCoeffDiv)

\* subMemUsage without the early return on a zero length
subMemUsageNoZeroCheck(rs, offset, length) ==
    LET newMemoryWordCount == divCeil(offset + length, WordSize)
        cost == MemCost(newMemoryWordCount)
        used == useGas(rs.gasLeft, cost - rs.highestMemCost)
    IN  IF newMemoryWordCount >= rs.memoryWordCount THEN rs
        ELSE IF cost > rs.highestMemCost
             THEN IF used.err = "OutOfGas"
                  THEN [rs EXCEPT !.err = "OutOfGas"]
                  ELSE [gasLeft |-> used.gasLeft,
                        memoryWordCount |-> newMemoryWordCount,
                        highestMemCost |-> cost,
                        err |-> "none"]
             ELSE [rs EXCEPT !.memoryWordCount = newMemoryWordCount]

\* subMemUsage storing the new word count before the gas is charged
subMemUsageWritesFirst(rs, offset, length) ==
    LET newMemoryWordCount == divCeil(offset + length, WordSize)
        cost == MemCost(newMemoryWordCount)
        used == useGas(rs.gasLeft, cost - rs.highestMemCost)
    IN  IF length = 0 THEN rs
        ELSE IF newMemoryWordCount >= rs.memoryWordCount THEN rs
        ELSE IF cost > rs.highestMemCost
             THEN IF used.err = "OutOfGas"
                  THEN [rs EXCEPT !.memoryWordCount = newMemoryWordCount,
                                  !.err = "OutOfGas"]
                  ELSE [gasLeft |-> used.gasLeft,
                        memoryWordCount |-> newMemoryWordCount,
                        highestMemCost |-> cost,
                        err |-> "none"]
             ELSE [rs EXCEPT !.memoryWordCount = newMemoryWordCount]

\* rs holds gasLeft, memoryWordCount and highestMemCost before the call; the
\* result holds them after it, with err = "OutOfGas" when useGas threw
subMemUsage(rs, offset, length) ==
    LET newMemoryWordCount == divCeil(offset + length, WordSize)
        cost == MemCost(newMemoryWordCount)
        used == useGas(rs.gasLeft, cost - rs.highestMemCost)
    IN  IF length = 0 THEN rs
        ELSE IF newMemoryWordCount >= rs.memoryWordCount THEN rs
        ELSE IF cost > rs.highestMemCost
             THEN IF used.err = "OutOfGas"
                  THEN [rs EXCEPT !.err = "OutOfGas"]
                  ELSE [gasLeft |-> used.gasLeft,
                        memoryWordCount |-> newMemoryWordCount,
                        highestMemCost |-> cost,
                        err |-> "none"]
             ELSE [rs EXCEPT !.memoryWordCount = newMemoryWordCount]

-----------------------------------------------------------------------------
(* GasAccountant: storage transition *)

\* updateSstoreGas charging sstoreSet whenever the new value is non-empty
updateSstoreGasSetOnAnyValue(ledger, currentStorage, value) ==
    LET reset == useGas(ledger.gasLeft, adjustSstoreGasEIP2929(SstoreReset, "reset"))
        set == useGas(ledger.gasLeft, SstoreSet)
    IN  IF Len(value) # 0
        THEN [gasLeft |-> set.gasLeft, gasRefund |-> ledger.gasRefund,
              used |-> <<SstoreSet>>, err |-> set.err]
        ELSE IF Len(currentStorage) # 0
        THEN [gasLeft |-> reset.gasLeft,
              gasRefund |-> IF reset.err = "OutOfGas" THEN ledger.gasRefund
                            ELSE refundGas(ledger.gasRefund, SstoreRefund),
              used |-> <<adjustSstoreGasEIP2929(SstoreReset, "reset")>>,
              err |-> reset.err]
        ELSE [gasLeft |-> reset.gasLeft, gasRefund |-> ledger.gasRefund,
              used |-> <<adjustSstoreGasEIP2929(SstoreReset, "reset")>>,
              err |-> reset.err]

\* ledger holds gasLeft and gasRefund before the call; the result holds them
\* after it, with the amounts passed to useGas in used
updateSstoreGas(ledger, currentStorage, value) ==
    LET sstoreResetCost == SstoreReset
        reset == useGas(ledger.gasLeft, adjustSstoreGasEIP2929(sstoreResetCost, "reset"))
        set == useGas(ledger.gasLeft, SstoreSet)
    IN  IF \/ (Len(value) = 0 /\ Len(currentStorage) = 0)
           \/ (Len(value) # 0 /\ Len(currentStorage) # 0)
        THEN [gasLeft |-> reset.gasLeft, gasRefund |-> ledger.gasRefund,
              used |-> <<adjustSstoreGasEIP2929(sstoreResetCost, "reset")>>,
              err |-> reset.err]
        ELSE IF Len(value) = 0 /\ Len(currentStorage) # 0
        THEN [gasLeft |-> reset.gasLeft,
              gasRefund |-> IF reset.err = "OutOfGas" THEN ledger.gasRefund
                            ELSE refundGas(ledger.gasRefund, SstoreRefund),
              used |-> <<adjustSstoreGasEIP2929(sstoreResetCost, "reset")>>,
              err |-> reset.err]
        ELSE IF Len(value) # 0 /\ Len(currentStorage) = 0
        THEN [gasLeft |-> set.gasLeft, gasRefund |-> ledger.gasRefund,
              used |-> <<SstoreSet>>, err |-> set.err]
        ELSE [gasLeft |-> ledger.gasLeft, gasRefund |-> ledger.gasRefund,
              used |-> <<>>, err |-> "none"]

-----------------------------------------------------------------------------
(* The pure functions, applied to inputs drawn from bounded sets *)

Dividends == (-MaxA)..MaxA
PosDivisors == 1..MaxB
Divisors == ((-MaxB)..MaxB) \ {0}
Words == 0..(Pow2(WordBits) - 1)
SliceArgs == 0..MaxSliceArg
CallGasValues == (0..MaxCallGas) \cup {1000, 5000, 900000, 990000, 1000000}

NoCall == [op |-> "none"]

\* a pure function is applied once, to inputs chosen freely
Idle == call.op = "none"

InitPure ==
    /\ gasLeft = 0
    /\ gasRefund = 0
    /\ memoryWordCount = 0
    /\ highestMemCost = 0
    /\ call = NoCall

CallDivCeil(a, b) ==
    /\ Idle
    /\ call' = [op |-> "divCeil", a |-> a, b |-> b, ret |-> divCeil(a, b)]
    /\ UNCHANGED <<gasLeft, gasRefund, memoryWordCount, highestMemCost>>

CallMod(a, b) ==
    /\ Idle
    /\ call' = [op |-> "mod", a |-> a, b |-> b, ret |-> mod(a, b)]
    /\ UNCHANGED <<gasLeft, gasRefund, memoryWordCount, highestMemCost>>

CallTwosRoundTrip(x) ==
    /\ Idle
    /\ call' = [op |-> "twos", x |-> x, signed |-> fromTwos(x),
                ret |-> toTwos(fromTwos(x))]
    /\ UNCHANGED <<gasLeft, gasRefund, memoryWordCount, highestMemCost>>

CallGetDataSlice(data, offset, length) ==
    /\ Idle
    /\ call' = [op |-> "getDataSlice", data |-> data, offset |-> offset,
                length |-> length, ret |-> getDataSlice(data, offset, length)]
    /\ UNCHANGED <<gasLeft, gasRefund, memoryWordCount, highestMemCost>>

CallMaxCallGas(gasLimit, gasAvail, fork) ==
    /\ Idle
    /\ call' = [op |-> "maxCallGas", gasLimit |-> gasLimit, gasAvail |-> gasAvail,
                fork |-> fork, ret |-> maxCallGas(gasLimit, gasAvail, fork)]
    /\ UNCHANGED <<gasLeft, gasRefund, memoryWordCount, highestMemCost>>

NextPure ==
    \/ \E a \in Dividends, b \in PosDivisors : CallDivCeil(a, b)
    \/ \E a \in Dividends, b \in Divisors : CallMod(a, b)
    \/ \E x \in Words : CallTwosRoundTrip(x)
    \/ \E data \in Buffers, offset \in SliceArgs, length \in SliceArgs :
           CallGetDataSlice(data, offset, length)
    \/ \E gasLimit \in CallGasValues, gasAvail \in CallGasValues, fork \in BOOLEAN :
           CallMaxCallGas(gasLimit, gasAvail, fork)

SpecPure == InitPure /\ [][NextPure]_vars

-----------------------------------------------------------------------------
(* Properties of the pure functions, checked under SpecPure *)

Min(x, y) == IF x <= y THEN x ELSE y

\* q is a / b truncated toward zero, for b > 0
IsTruncQuot(q, a, b) ==
    IF a >= 0 THEN q * b <= a /\ a < (q + 1) * b
               ELSE (q - 1) * b < a /\ a <= q * b

Quotients == (-(MaxA + 1))..(MaxA + 1)

Congruent(x, y, m) == (x - y) % abs(m) = 0

\* C6: maxCallGas returns the requested limit unchanged before tangerineWhistle,
\* even above the gas available; from tangerineWhistle on it returns
\* min(requested, available - floor(available / 64)), so the caller keeps at
\* least floor(available / 64); 1,000,000 available caps 990,000 to 984,375
\* and leaves 900,000 as it is.
MaxCallGasForwarding ==
    call.op = "maxCallGas" =>
        LET cap == call.gasAvail - (call.gasAvail \div 64)
        IN  /\ ~call.fork => call.ret = call.gasLimit
            /\ call.fork =>
                /\ call.ret = Min(call.gasLimit, cap)
                /\ call.gasAvail - call.ret >= call.gasAvail \div 64
            /\ (call.fork /\ call.gasAvail = 1000000 /\ call.gasLimit = 990000)
                   => call.ret = 984375
            /\ (call.fork /\ call.gasAvail = 1000000 /\ call.gasLimit = 900000)
                   => call.ret = 900000
            /\ (~call.fork /\ call.gasAvail = 1000 /\ call.gasLimit = 5000)
                   => call.ret = 5000

\* a capped post-fork call, and the scenario of the specification
MaxCallGasCapped ==
    /\ call.op = "maxCallGas"
    /\ call.fork
    /\ call.gasAvail = 1000000
    /\ call.gasLimit = 990000
    /\ call.ret = 984375

\* C7 as stated: toTwos(fromTwos(x)) = x for every x in 0 .. 2^WordBits - 1, and
\* the result of the round trip is again in 0 .. 2^WordBits - 1.
TwosRoundTrip ==
    call.op = "twos" =>
        /\ call.ret = call.x
        /\ call.ret \in 0..(Pow2(WordBits) - 1)

GetDataSliceWindow ==
    call.op = "getDataSlice" =>
        /\ Len(call.ret) = call.length
        /\ \A i \in 0..(call.length - 1) :
              call.ret[i + 1] = IF call.offset + i < Len(call.data)
                                THEN call.data[call.offset + i + 1]
                                ELSE 0

\* a window that starts inside the data at a non-zero byte and ends beyond it
GetDataSliceOverlapsEnd ==
    /\ call.op = "getDataSlice"
    /\ call.offset > 0
    /\ call.offset < Len(call.data)
    /\ call.offset + call.length > Len(call.data)
    /\ call.data[call.offset + 1] # 0
    /\ call.ret[1] # 0
    /\ call.ret[call.length] = 0

\* C10 as amended: for every a and every b > 0, mod(a, b) is the floor-modulo:
\* 0 <= result < b and result is congruent to a modulo b.
ModPositiveDivisor ==
    (call.op = "mod" /\ call.b > 0) =>
        /\ 0 <= call.ret
        /\ call.ret < call.b
        /\ Congruent(call.ret, call.a, call.b)

\* C10 as stated: for every non-zero b the result is zero or has the sign of b,
\* is smaller than b in absolute value and is congruent to a modulo b.
ModAnyDivisor ==
    call.op = "mod" =>
        /\ call.ret = 0 \/ ((call.ret < 0) = (call.b < 0))
        /\ abs(call.ret) < abs(call.b)
        /\ Congruent(call.ret, call.a, call.b)

\* a negative a, a positive b, and the remainder corrected to a positive value
ModNegativeDividend ==
    /\ call.op = "mod"
    /\ call.a < 0
    /\ call.b > 0
    /\ call.ret > 0

-----------------------------------------------------------------------------
(* Memory charging on one execution context.  The context is created by the *)
(* interpreter and handed to subMemUsage; a run starts from any context     *)
(* within the bounds and makes any sequence of calls on it.                 *)

Offsets == {WordSize * k : k \in 0..MaxOffsetWords} \cup {1}
Lengths == {0, 1, WordSize, WordSize + 1, 2 * WordSize}

Init ==
    /\ gasLeft \in 0..MaxGas
    /\ gasRefund = 0
    /\ memoryWordCount \in 0..MaxWords
    /\ highestMemCost \in {MemCost(w) : w \in 0..MaxWords}
    /\ call = NoCall

SubMemUsage(offset, length) ==
    LET rs == [gasLeft |-> gasLeft, memoryWordCount |-> memoryWordCount,
               highestMemCost |-> highestMemCost, err |-> "none"]
        out == subMemUsage(rs, offset, length)
    IN  /\ gasLeft' = out.gasLeft
        /\ memoryWordCount' = out.memoryWordCount
        /\ highestMemCost' = out.highestMemCost
        /\ call' = [op |-> "subMemUsage", offset |-> offset, length |-> length,
                    pre |-> rs, err |-> out.err]
        /\ UNCHANGED gasRefund

Next == \E offset \in Offsets, length \in Lengths : SubMemUsage(offset, length)

Spec == Init /\ [][Next]_vars

-----------------------------------------------------------------------------
(* Storage charging on one gas ledger *)

StorageValues == UNION {[1..n -> 0..MaxStorageByte] : n \in 0..MaxStorageLen}

InitSstore ==
    /\ gasLeft \in {u * SstoreReset + d : u \in 0..MaxGasUnits, d \in {0, SstoreReset - 1}}
    /\ gasRefund = 0
    /\ memoryWordCount = 0
    /\ highestMemCost = 0
    /\ call = NoCall

UpdateSstoreGas(currentStorage, value) ==
    LET ledger == [gasLeft |-> gasLeft, gasRefund |-> gasRefund]
        out == updateSstoreGas(ledger, currentStorage, value)
    IN  /\ gasLeft' = out.gasLeft
        /\ gasRefund' = out.gasRefund
        /\ call' = [op |-> "updateSstoreGas", currentStorage |-> currentStorage,
                    value |-> value, pre |-> ledger, used |-> out.used,
                    err |-> out.err]
        /\ UNCHANGED <<memoryWordCount, highestMemCost>>

NextSstore ==
    \E currentStorage \in StorageValues, value \in StorageValues :
        UpdateSstoreGas(currentStorage, value)

SpecSstore == InitSstore /\ [][NextSstore]_vars

-----------------------------------------------------------------------------
(* Properties of subMemUsage, checked under Spec *)

\* the least number of 32-byte words that cover n bytes
CeilWords(n) == CHOOSE w \in 0..n : w * 32 >= n /\ (w - 1) * 32 < n

\* C1 as stated: with length > 0, newWordCount = ceil((offset + length) / 32)
\* above memoryWordCount and 0 < delta <= gasLeft, where delta is
\* newWordCount * 3 + floor(newWordCount^2 / 512) - highestMemCost, the call
\* deducts delta from gasLeft, sets highestMemCost to the total cost and
\* memoryWordCount to newWordCount; from an empty context, offset 0 and length
\* 32 cost exactly 3 gas and leave memoryWordCount = 1.
MemoryExpansionCharged ==
    (call.op = "subMemUsage" /\ call.length > 0) =>
        LET newWordCount == CeilWords(call.offset + call.length)
            totalCost == newWordCount * 3 + ((newWordCount * newWordCount) \div 512)
            delta == totalCost - call.pre.highestMemCost
        IN  (/\ newWordCount > call.pre.memoryWordCount
             /\ 0 < delta
             /\ delta <= call.pre.gasLeft)
            => /\ gasLeft = call.pre.gasLeft - delta
               /\ highestMemCost = totalCost
               /\ memoryWordCount = newWordCount

\* C2 as stated: no call lowers memoryWordCount or highestMemCost.
MemoryCountersNeverDecrease ==
    [][/\ memoryWordCount' >= memoryWordCount
       /\ highestMemCost' >= highestMemCost]_vars

\* C3: a call with length 0 changes nothing and charges nothing.
ZeroLengthIsFree ==
    (call.op = "subMemUsage" /\ call.length = 0) =>
        /\ gasLeft = call.pre.gasLeft
        /\ memoryWordCount = call.pre.memoryWordCount
        /\ highestMemCost = call.pre.highestMemCost
        /\ call.err = "none"

\* a zero-length call at an offset whose word count the context does not cover
\* exactly: below it, where a non-zero length would have been processed
ZeroLengthBelowWordCount ==
    /\ call.op = "subMemUsage"
    /\ call.length = 0
    /\ call.offset > 0
    /\ CeilWords(call.offset) < call.pre.memoryWordCount

\* C4: a call that fails with OutOfGas leaves gasLeft, highestMemCost and
\* memoryWordCount as they were.
OutOfGasChangesNothing ==
    (call.op = "subMemUsage" /\ call.err = "OutOfGas") =>
        /\ gasLeft = call.pre.gasLeft
        /\ memoryWordCount = call.pre.memoryWordCount
        /\ highestMemCost = call.pre.highestMemCost

\* a call that failed with OutOfGas although some gas was left
MemoryChargeOutOfGas ==
    /\ call.op = "subMemUsage"
    /\ call.err = "OutOfGas"
    /\ call.pre.gasLeft > 0

-----------------------------------------------------------------------------
(* Properties of updateSstoreGas, checked under SpecSstore *)

Empty(buf) == Len(buf) = 0

\* C5 as amended: the classification is by emptiness alone; (empty, empty)
\* charges sstoreReset with no refund; (empty, non-empty) charges sstoreSet
\* with no refund; (non-empty, empty) charges sstoreReset and, the charge
\* having succeeded, refunds sstoreRefund; (non-empty, non-empty) charges
\* sstoreReset with no refund, also for equal values.  A charge that succeeds
\* is deducted from gasLeft.
SstoreClassification ==
    call.op = "updateSstoreGas" =>
        LET cur == call.currentStorage
            new == call.value
            refunded == gasRefund - call.pre.gasRefund
        IN  /\ (Empty(cur) /\ Empty(new)) =>
                call.used = <<SstoreReset>> /\ refunded = 0
            /\ (Empty(cur) /\ ~Empty(new)) =>
                call.used = <<SstoreSet>> /\ refunded = 0
            /\ (~Empty(cur) /\ Empty(new)) =>
                /\ call.used = <<SstoreReset>>
                /\ refunded = IF call.err = "none" THEN SstoreRefund ELSE 0
            /\ (~Empty(cur) /\ ~Empty(new)) =>
                call.used = <<SstoreReset>> /\ refunded = 0
            /\ call.err = "none" => gasLeft = call.pre.gasLeft - call.used[1]
            /\ call.err = "OutOfGas" => gasLeft = call.pre.gasLeft

\* C5 as stated: (empty, empty) charges neither sstoreSet nor sstoreReset.
SstoreClassificationEmptyFree ==
    call.op = "updateSstoreGas" =>
        LET cur == call.currentStorage
            new == call.value
            refunded == gasRefund - call.pre.gasRefund
        IN  /\ (Empty(cur) /\ Empty(new)) =>
                call.used = <<>> /\ refunded = 0
            /\ (Empty(cur) /\ ~Empty(new)) =>
                call.used = <<SstoreSet>> /\ refunded = 0
            /\ (~Empty(cur) /\ Empty(new)) =>
                /\ call.used = <<SstoreReset>>
                /\ refunded = IF call.err = "none" THEN SstoreRefund ELSE 0
            /\ (~Empty(cur) /\ ~Empty(new)) =>
                call.used = <<SstoreReset>> /\ refunded = 0

\* an empty slot written with an empty value, charged as a reset and paid for
SstoreEmptyToEmptyCharged ==
    /\ call.op = "updateSstoreGas"
    /\ Empty(call.currentStorage)
    /\ Empty(call.value)
    /\ call.err = "none"
    /\ gasLeft = call.pre.gasLeft - SstoreReset

=============================================================================
